---- MODULE Spec2Model ----
(***************************************************************************)
(* A model of the patent ingestion pipeline and its query servers:         *)
(*   - ingest_pdfs.py : fetch_existing_hashes, the planning loop, the      *)
(*     parse loop and the index build of main (SpecIngest), and            *)
(*     compute_file_hash (SpecHash);                                       *)
(*   - weaviateDB.py  : add_patents_to_collection, the batch driver        *)
(*     (SpecBatch), and create_weaviate_client with the start of main      *)
(*     (SpecConn);                                                         *)
(*   - XMLPatent.py   : parse_patent_xml and its helpers, driven by the    *)
(*     parse step of the batch driver (SpecXml);                           *)
(*   - server.py, weaviate_server.py : lifespan and query_endpoint         *)
(*     (SpecQuery).                                                        *)
(* Strings are sequences of one-character strings, so that strip() and     *)
(* concatenation are computed and not assumed.                             *)
(***************************************************************************)
EXTENDS Integers, Sequences, FiniteSets, TLC

\* ------------------------------------------------------------------ bounds
\* pages the store may split its result set into
MaxPages == 3
\* objects on one page
MaxObjs == 1
\* distinct fingerprint values (0 stands for a missing or empty file_hash)
MaxHash == 2
\* local PDF files found by glob
MaxFiles == 3
\* entries of XMLPatent.file_list
MaxData == 15
\* child nodes of one section of a document
MaxKids == 2
\* characters of a file name before its extension
MaxName == 2
\* bytes of a file handed to compute_file_hash
MaxBytes == 5
\* bytes one read returns: 4096 in the code (ingest_pdfs.py line 41), scaled
\* down so that files of a few bytes span several blocks
BlockSize == 2
\* requests the server accepts in one run
MaxQueries == 2

\* ------------------------------------------------------- program constants
\* weaviateDB.py line 133: the error threshold of one batch run
ErrorThreshold == 10
\* weaviateDB.py line 150: the batch size main passes
BatchSizeMain == 10
\* weaviateDB.py line 140: failed names shown in the summary
ExamplesShown == 5
\* weaviateDB.py line 31: range(3)
MaxAttempts == 3

VARIABLES
    \* ---- ingest_pdfs.py, the parse and write steps of main
    all_docs,         \* the documents parsed so far, with their metadata
    pj,               \* index into to_process of the next file to parse
    stored,           \* the documents written to the remote store by this run
    \* ---- ingest_pdfs.py
    ipc,              \* position of ingest_pdfs.main
    pages,            \* the store's result set, as the pages it serves
    existing,         \* fetch_existing_hashes: the local set being built
    cursor,           \* fetch_existing_hashes: continuation cursor (0: none)
    requested,        \* history: the cursor of every query answered (0: first query)
    fetch_err,        \* history: how the fetch ended ("none", "nodata", "raised")
    existing_hashes,  \* main: the set the planner compares against
    pdf_paths,        \* main: the glob result, in order
    to_process,       \* main: planned (path, hash) pairs
    k,                \* main: index of the planning loop
    \* ---- weaviateDB.py
    bpc,              \* position of add_patents_to_collection
    data,             \* XMLPatent.file_list: what happens to each named file
    batch_size,       \* the batch_size argument
    i,                \* loop turns started (items attempted)
    error_count,      \* line 90
    error_names,      \* line 89: names are positions in data
    number_errors,    \* batch.number_errors: writes the store rejected
    written,          \* items the store persisted, in order
    report,           \* lines 138-142: the summary logged
    failed_items,     \* history: every item that failed, in order
    \* ---- XMLPatent.py, called from the parse step of the driver
    xpc,              \* position inside parse_patent_xml, or of its caller
    xdocs,            \* the parsed documents the caller goes through
    xi,               \* documents the caller has finished with
    desc,             \* parse_patent_xml: local desc
    abstract,         \* parse_patent_xml: local abstract
    title,            \* parse_patent_xml: local title
    outcomes,         \* per finished document: the dict returned or the error raised
    \* ---- ingest_pdfs.py, compute_file_hash
    hpc,              \* position inside compute_file_hash, or of its caller
    hfiles,           \* the files to hash: path and bytes
    hj,               \* files hashed so far
    hpos,             \* bytes of the open file already read
    hasher,           \* state of the incremental accumulator
    digests,          \* the hexdigest returned for each file, in order
    \* ---- server.py / weaviate_server.py
    qpc,              \* the application: not started, starting, running
    server,           \* which of the two server modules is the application
    rag_agent,        \* module global
    session_id,       \* module global
    reqs,             \* the query_endpoint coroutines, in order of acceptance
    calls,            \* the calls rag_agent.create_turn has received
    \* ---- weaviateDB.py, create_weaviate_client and main
    cpc,              \* position inside main and create_weaviate_client
    weaviate_url,     \* os.environ.get("WEAVIATE_URL")
    weaviate_api_key, \* os.environ.get("WEAVIATE_API_KEY")
    attempt,          \* loop variable of the retry loop
    tried,            \* the outcome of each connection attempt, in order
    exit_code,        \* the argument of sys.exit, -1 while the process lives
    ingest_started    \* add_patents_to_collection has been called

parseVars == <<all_docs, pj, stored>>

ingestVars ==
    <<ipc, pages, existing, cursor, requested, fetch_err, existing_hashes,
      pdf_paths, to_process, k, parseVars>>

batchVars ==
    <<bpc, data, batch_size, i, error_count, error_names, number_errors, written,
      report, failed_items>>

xmlVars == <<xpc, xdocs, xi, desc, abstract, title, outcomes>>

hashVars == <<hpc, hfiles, hj, hpos, hasher, digests>>

queryVars == <<qpc, server, rag_agent, session_id, reqs, calls>>

connVars == <<cpc, weaviate_url, weaviate_api_key, attempt, tried, exit_code, ingest_started>>

vars == <<ingestVars, batchVars, xmlVars, hashVars, queryVars, connVars>>

\* everything but one component
notIngest == <<batchVars, xmlVars, hashVars, queryVars, connVars>>

notBatch == <<ingestVars, xmlVars, hashVars, queryVars, connVars>>

notXml == <<ingestVars, batchVars, hashVars, queryVars, connVars>>

notHash == <<ingestVars, batchVars, xmlVars, queryVars, connVars>>

notQuery == <<ingestVars, batchVars, xmlVars, hashVars, connVars>>

notConn == <<ingestVars, batchVars, xmlVars, hashVars, queryVars>>

\* ------------------------------------------------------------ small helpers
SeqsUpTo(S, n) == UNION {[1..m -> S] : m \in 0..n}

\* the batch driver before add_patents_to_collection is called
BatchIdle ==
    /\ bpc = "idle"
    /\ data = <<>>
    /\ batch_size = 0
    /\ i = 0
    /\ error_count = 0
    /\ error_names = <<>>
    /\ number_errors = 0
    /\ written = <<>>
    /\ report = [level |-> "none"]
    /\ failed_items = <<>>

\* no document handed to parse_patent_xml
XmlIdle ==
    /\ xpc = "idle"
    /\ xdocs = <<>>
    /\ xi = 0
    /\ desc = <<>>
    /\ abstract = <<>>
    /\ title = <<>>
    /\ outcomes = <<>>

\* no file handed to compute_file_hash
HashIdle ==
    /\ hpc = "idle"
    /\ hfiles = <<>>
    /\ hj = 0
    /\ hpos = 0
    /\ hasher = 0
    /\ digests = <<>>

\* no server application in this process (module globals, lines 14-17)
QueryIdle ==
    /\ qpc = "idle"
    /\ server = "none"
    /\ rag_agent = <<"<None>">>
    /\ session_id = <<"<None>">>
    /\ reqs = <<>>
    /\ calls = <<>>

\* weaviateDB.main before it runs
ConnIdle ==
    /\ cpc = "idle"
    /\ weaviate_url = <<"<None>">>
    /\ weaviate_api_key = <<"<None>">>
    /\ attempt = 0
    /\ tried = <<>>
    /\ exit_code = -1
    /\ ingest_started = FALSE

\* ingest_pdfs.main before it runs
IngestIdle ==
    /\ ipc = "idle"
    /\ pages = <<>>
    /\ existing = {}
    /\ cursor = 0
    /\ requested = <<>>
    /\ fetch_err = "none"
    /\ existing_hashes = {}
    /\ pdf_paths = <<>>
    /\ to_process = <<>>
    /\ k = 1
    /\ all_docs = <<>>
    /\ pj = 1
    /\ stored = <<>>

\* ======================================================== ingest_pdfs.py

Hashes == 1..MaxHash

\* obj.get("file_hash") of one stored object: 0 when absent or empty
HashOrEmpty == 0..MaxHash

PageObjs == SeqsUpTo(HashOrEmpty, MaxObjs)

PageLists == SeqsUpTo(PageObjs, MaxPages) \ {<<>>}

\* the cursor the store puts on page j: the next page, none on the last
PageCursor(pgs, j) == IF j < Len(pgs) THEN j + 1 ELSE 0

\* the page the store serves for a query: the first one without a cursor,
\* the page a cursor names otherwise
ServedPage(pgs, after) == IF after = 0 THEN 1 ELSE after

\* lines 98-101 / 114-117: add every truthy file_hash of the page
AddPageHashes(ex, objs) == ex \cup {objs[j] : j \in {n \in 1..Len(objs) : objs[n] # 0}}

\* a faulty variant of ResponseCursor: the loop keeps its first cursor
StaleCursor(pgs, after, prev) == IF prev # 0 THEN prev ELSE PageCursor(pgs, ServedPage(pgs, after))

\* line 105 / 118: the cursor read from the response just received
ResponseCursor(pgs, after, prev) == PageCursor(pgs, ServedPage(pgs, after))

\* lines 88-105: the first query
FetchFirst ==
    /\ UNCHANGED <<notIngest, parseVars>>
    /\ ipc = "start"
    /\ \/ \* query.do() raises: nothing catches it, in the fetch or in main
          /\ ipc' = "crashed"
          /\ fetch_err' = "raised"
          /\ UNCHANGED <<existing, cursor, requested, existing_hashes>>
       \/ \* line 94: a response without data/Get returns the empty set
          /\ ipc' = "fetched"
          /\ fetch_err' = "nodata"
          /\ existing_hashes' = existing
          /\ requested' = Append(requested, 0)
          /\ UNCHANGED <<existing, cursor>>
       \/ /\ ipc' = "paging"
          /\ existing' = AddPageHashes(existing, pages[ServedPage(pages, 0)])
          /\ cursor' = ResponseCursor(pages, 0, 0)
          /\ requested' = Append(requested, 0)
          /\ UNCHANGED <<fetch_err, existing_hashes>>
    /\ UNCHANGED <<pages, pdf_paths, to_process, k>>

\* lines 106-118: one turn of the while loop
FetchNext ==
    /\ UNCHANGED <<notIngest, parseVars>>
    /\ ipc = "paging"
    /\ cursor # 0
    /\ Len(requested) <= MaxPages + 1
    /\ \/ \* .do() raises, or res["data"] raises KeyError: uncaught
          /\ ipc' = "crashed"
          /\ fetch_err' = "raised"
          /\ UNCHANGED <<existing, cursor, requested>>
       \/ /\ existing' = AddPageHashes(existing, pages[ServedPage(pages, cursor)])
          /\ cursor' = ResponseCursor(pages, cursor, cursor)
          /\ requested' = Append(requested, cursor)
          /\ UNCHANGED <<ipc, fetch_err>>
    /\ UNCHANGED <<pages, existing_hashes, pdf_paths, to_process, k>>

\* line 120, and line 131 of main
FetchReturn ==
    /\ UNCHANGED <<notIngest, parseVars>>
    /\ ipc = "paging"
    /\ cursor = 0
    /\ ipc' = "fetched"
    /\ existing_hashes' = existing
    /\ UNCHANGED <<pages, existing, cursor, requested, fetch_err, pdf_paths, to_process, k>>

\* a local PDF: its path and the digest compute_file_hash gives for its bytes
PdfFiles == [path : 1..MaxFiles, hash : Hashes]

\* glob results: distinct paths, in directory order
PdfLists == {s \in SeqsUpTo(PdfFiles, MaxFiles) : \A j \in 1..Len(s) : s[j].path = j}

\* lines 34-43, as far as the planner needs it: the digest of the file
compute_file_hash(f) == f.hash

\* lines 135-138: list the directory; the result set of the fetch is gone
ListPdfs ==
    /\ UNCHANGED <<notIngest, parseVars>>
    /\ ipc = "fetched"
    /\ \E paths \in PdfLists :
          /\ pdf_paths' = paths
          /\ ipc' = IF paths = <<>> THEN "done" ELSE "planning"
    /\ pages' = <<>>
    /\ k' = 1
    /\ UNCHANGED <<existing, cursor, requested, fetch_err, existing_hashes, to_process>>

\* a faulty variant of PlanOne: a file whose hash is already planned is skipped
PlanOncePerHash(tp, f, ex) ==
    IF compute_file_hash(f) \in ex \/ \E j \in 1..Len(tp) : tp[j][2] = compute_file_hash(f)
    THEN tp
    ELSE Append(tp, <<f.path, compute_file_hash(f)>>)

\* a faulty variant of PlanOne: a new file is put in front
PlanPrepend(tp, f, ex) ==
    IF compute_file_hash(f) \in ex THEN tp ELSE <<<<f.path, compute_file_hash(f)>>>> \o tp

\* lines 143-147: skip a known hash, append a new one
PlanOne(tp, f, ex) ==
    IF compute_file_hash(f) \in ex THEN tp ELSE Append(tp, <<f.path, compute_file_hash(f)>>)

\* lines 142-147: one turn of the planning loop
PlanStep ==
    /\ UNCHANGED <<notIngest, parseVars>>
    /\ ipc = "planning"
    /\ k <= Len(pdf_paths)
    /\ to_process' = PlanOne(to_process, pdf_paths[k], existing_hashes)
    /\ k' = k + 1
    /\ UNCHANGED <<ipc, pages, existing, cursor, requested, fetch_err, existing_hashes, pdf_paths>>

\* lines 149-153: nothing new ends the run, otherwise ingestion follows
PlanEnd ==
    /\ UNCHANGED <<notIngest, parseVars>>
    /\ ipc = "planning"
    /\ k > Len(pdf_paths)
    /\ ipc' = IF to_process = <<>> THEN "done" ELSE "planned"
    /\ UNCHANGED <<pages, existing, cursor, requested, fetch_err, existing_hashes,
                   pdf_paths, to_process, k>>

\* how many documents load_data returns for one PDF
DocCounts == {0, 1, 2}

\* lines 162-167: the documents of one file, with file_name and file_hash
\* from its entry of to_process
DocsOf(entry, n) ==
    [page \in 1..n |-> [file_name |-> entry[1], file_hash |-> entry[2], page |-> page]]

\* a faulty variant of AllParsed: the write does not wait for the last file
FirstParsed(tp, j) == j > 1

\* lines 159-167 have run for every entry of to_process
AllParsed(tp, j) == j > Len(tp)

\* lines 159-167: one turn of the parse loop; the documents are kept in
\* memory, nothing is sent to the store
ParseOne ==
    /\ ipc = "planned"
    /\ pj <= Len(to_process)
    /\ \E n \in DocCounts : all_docs' = all_docs \o DocsOf(to_process[pj], n)
    /\ pj' = pj + 1
    /\ UNCHANGED <<ipc, pages, existing, cursor, requested, fetch_err, existing_hashes,
                   pdf_paths, to_process, k, stored>>
    /\ UNCHANGED notIngest

\* line 162: load_data raises; main has no handler, the run ends
ParseRaise ==
    /\ ipc = "planned"
    /\ pj <= Len(to_process)
    /\ ipc' = "parse_crashed"
    /\ UNCHANGED <<pages, existing, cursor, requested, fetch_err, existing_hashes,
                   pdf_paths, to_process, k, parseVars>>
    /\ UNCHANGED notIngest

\* lines 170-193: the index is built from all_docs: every document is
\* written, or the write fails after some of them
BuildIndex ==
    /\ ipc = "planned"
    /\ AllParsed(to_process, pj)
    /\ \E n \in 0..Len(all_docs) :
          /\ stored' = SubSeq(all_docs, 1, n)
          /\ ipc' = IF n = Len(all_docs) THEN "ingested" ELSE "write_crashed"
    /\ UNCHANGED <<pages, existing, cursor, requested, fetch_err, existing_hashes,
                   pdf_paths, to_process, k, all_docs, pj>>
    /\ UNCHANGED notIngest

InitIngest ==
    /\ ipc = "start"
    /\ pages \in PageLists
    /\ existing = {}
    /\ cursor = 0
    /\ requested = <<>>
    /\ fetch_err = "none"
    /\ existing_hashes = {}
    /\ pdf_paths = <<>>
    /\ to_process = <<>>
    /\ k = 1
    /\ all_docs = <<>>
    /\ pj = 1
    /\ stored = <<>>
    /\ BatchIdle
    /\ XmlIdle
    /\ HashIdle
    /\ QueryIdle
    /\ ConnIdle

NextIngest ==
    \/ FetchFirst
    \/ FetchNext
    \/ FetchReturn
    \/ ListPdfs
    \/ PlanStep
    \/ PlanEnd
    \/ ParseOne
    \/ ParseRaise
    \/ BuildIndex

SpecIngest == InitIngest /\ [][NextIngest]_vars

\* ------------------------------------------------- claims on ingest_pdfs.py

\* the candidates among the first n files whose hash is not in ex, in order
NewAmong(paths, n, ex) ==
    LET sel == SelectSeq(SubSeq(paths, 1, n), LAMBDA f : f.hash \notin ex)
    IN  [j \in 1..Len(sel) |-> <<sel[j].path, sel[j].hash>>]

\* C1: at every point of the planning loop, and when it has ended, to_process
\* holds exactly the files seen so far whose fingerprint is not in the
\* existing set, in the order of the input list.
C1_PlannerExactInOrder ==
    ipc \in {"planning", "planned", "done"}
        => to_process = NewAmong(pdf_paths, k - 1, existing_hashes)

\* C1 witness: planning ended with both files new, kept in input order
C1_Witness ==
    /\ ipc = "planned"
    /\ Len(pdf_paths) = 3
    /\ Len(to_process) = 2
    /\ to_process[1][1] < to_process[2][1]
    /\ existing_hashes # {}

\* C2 (the claim as stated): a query that raises does not end the run, and
\* after a failed fetch every local candidate is planned.
C2_FetchFailOpen ==
    /\ fetch_err = "raised" => ipc # "crashed"
    /\ (fetch_err # "none" /\ ipc \in {"planned", "done"})
           => Len(to_process) = Len(pdf_paths)

\* every truthy file_hash on any page of the result set
AllHashes(pgs) == UNION {{pgs[j][n] : n \in 1..Len(pgs[j])} : j \in 1..Len(pgs)} \ {0}

\* the queries that follow every cursor once, in order: none, then 2, 3, ...
CursorChain(pgs) == [j \in 1..Len(pgs) |-> IF j = 1 THEN 0 ELSE j]

\* C3: a fetch over well-formed pages asks for every page once, in cursor
\* order, returns the union of all non-empty fingerprints, and the loop
\* asks at most one query per page (it ends by itself, not by a cap).
C3_PaginationComplete ==
    /\ (ipc = "fetched" /\ fetch_err = "none")
           => /\ existing_hashes = AllHashes(pages)
              /\ requested = CursorChain(pages)
    /\ (ipc = "paging" /\ cursor # 0) => Len(requested) < Len(pages)
    /\ ipc = "paging" => requested = SubSeq(CursorChain(pages), 1, Len(requested))

\* C3 witness: three pages followed, two distinct fingerprints merged
C3_Witness ==
    /\ ipc = "fetched"
    /\ fetch_err = "none"
    /\ Len(pages) = 3
    /\ Len(requested) = 3
    /\ Cardinality(existing_hashes) = 2

\* =========================================================== weaviateDB.py

\* what happens to one entry of file_list when the driver handles it:
\*   "ok"       found as named, parses, the store persists it
\*   "alt"      found only under the lowercase .xml name, parses, persisted
\*   "missing"  found under neither name
\*   "parseerr" found, parse_patent_xml raises
\*   "addraise" found, parses, batch.add_object raises
\*   "rejected" found, parses, add_object returns and the store rejects the
\*              write, which the batch counts in number_errors
Kinds == {"ok", "alt", "missing", "parseerr", "addraise", "rejected"}

\* file lists of n entries: the first cut of kind a, the rest of kind b
DataLists ==
    {[j \in 1..n |-> IF j <= cut THEN a ELSE b] :
        n \in 0..MaxData, cut \in 0..MaxData, a \in Kinds, b \in Kinds}

Min(a, b) == IF a <= b THEN a ELSE b

\* line 86
test_db_size == Min(batch_size, Len(data))

\* lines 98-104: the name as given, else the stem with .xml, else nothing
FileFound(kind) == kind # "missing"

\* lines 111-117
ParseRaises(kind) == kind = "parseerr"

\* lines 120-130
AddRaises(kind) == kind = "addraise"

\* the write the store rejects after add_object returned
StoreRejects(kind) == kind = "rejected"

\* line 133
TooManyErrors(ne) == ne > ErrorThreshold

\* lines 85-93: the call, with the file list and batch size it is given
BatchStart ==
    /\ bpc = "idle"
    /\ bpc' = "loop"
    /\ UNCHANGED <<data, batch_size, i, error_count, error_names, number_errors,
                   written, report, failed_items>>
    /\ UNCHANGED notBatch

\* lines 94-135: one turn of the for loop
BatchItem ==
    /\ bpc = "loop"
    /\ i < test_db_size
    /\ LET name == i + 1
           kind == data[name]
       IN  /\ i' = i + 1
           /\ IF ~FileFound(kind) \/ ParseRaises(kind)
              THEN \* lines 104-108, 113-117: log, count, continue
                   /\ error_names' = Append(error_names, name)
                   /\ error_count' = error_count + 1
                   /\ failed_items' = Append(failed_items, name)
                   /\ bpc' = "loop"
                   /\ UNCHANGED <<number_errors, written>>
              ELSE /\ IF AddRaises(kind)
                      THEN \* lines 127-130
                           /\ error_names' = Append(error_names, name)
                           /\ error_count' = error_count + 1
                           /\ failed_items' = Append(failed_items, name)
                           /\ UNCHANGED <<number_errors, written>>
                      ELSE IF StoreRejects(kind)
                      THEN \* lines 121-126: queued; the batch counts the error
                           /\ number_errors' = number_errors + 1
                           /\ failed_items' = Append(failed_items, name)
                           /\ UNCHANGED <<error_names, error_count, written>>
                      ELSE \* lines 121-126: queued and persisted
                           /\ written' = Append(written, name)
                           /\ UNCHANGED <<error_names, error_count, number_errors,
                                          failed_items>>
                   \* lines 133-135
                   /\ bpc' = IF TooManyErrors(number_errors') THEN "summary" ELSE "loop"
    /\ UNCHANGED <<data, batch_size, report>>
    /\ UNCHANGED notBatch

\* the for loop runs out: the with-block is left and the batch is sent
BatchLoopEnd ==
    /\ bpc = "loop"
    /\ i >= test_db_size
    /\ bpc' = "summary"
    /\ UNCHANGED <<data, batch_size, i, error_count, error_names, number_errors,
                   written, report, failed_items>>
    /\ UNCHANGED notBatch

\* lines 138-142: the summary
BatchSummary ==
    /\ bpc = "summary"
    /\ bpc' = "done"
    /\ report' = IF error_count # 0
                 THEN [level |-> "warning", errors |-> error_count,
                       examples |-> SubSeq(error_names, 1, Min(ExamplesShown, Len(error_names)))]
                 ELSE [level |-> "info", imported |-> test_db_size]
    /\ UNCHANGED <<data, batch_size, i, error_count, error_names, number_errors,
                   written, failed_items>>
    /\ UNCHANGED notBatch

InitBatch ==
    /\ IngestIdle
    /\ XmlIdle
    /\ HashIdle
    /\ QueryIdle
    /\ ConnIdle
    /\ bpc = "idle"
    /\ data \in DataLists
    /\ batch_size \in {BatchSizeMain, MaxData}
    /\ i = 0
    /\ error_count = 0
    /\ error_names = <<>>
    /\ number_errors = 0
    /\ written = <<>>
    /\ report = [level |-> "none"]
    /\ failed_items = <<>>

NextBatch ==
    \/ BatchStart
    \/ BatchItem
    \/ BatchLoopEnd
    \/ BatchSummary

SpecBatch == InitBatch /\ [][NextBatch]_vars

\* --------------------------------------------------- claims on weaviateDB.py

\* C4 (the claim as stated): once more than 10 items of the run have failed,
\* whatever the kind of failure, no further item is attempted.
C4_AbortAfterTenFailures ==
    [][Len(failed_items) > ErrorThreshold => i' = i]_vars

\* C5 (the claim as stated): while no more than 10 items have failed, every
\* failing item adds one to the error counter, has its name recorded, and
\* the loop goes on with the next item.
C5_FailureCountedAndSkipped ==
    [][(Len(failed_items') = Len(failed_items) + 1 /\ Len(failed_items') <= ErrorThreshold)
          => /\ error_count' = error_count + 1
             /\ error_names' = Append(error_names, i + 1)
             /\ bpc' = "loop"]_vars

\* C6 (the claim as stated): the summary gives the number of items that
\* failed and the first failed items, and reports success only when nothing
\* failed and every item was attempted.
C6_SummaryFaithful ==
    bpc = "done"
        => IF report.level = "warning"
           THEN /\ report.errors = Len(failed_items)
                /\ report.examples = SubSeq(failed_items, 1, Min(ExamplesShown, Len(failed_items)))
           ELSE /\ failed_items = <<>>
                /\ i = test_db_size

\* ============================================================ XMLPatent.py

\* a call that returned v, a call that raised e
Ret(v) == [ok |-> TRUE, val |-> v]

Raise(e) == [ok |-> FALSE, err |-> e]

\* Python's None, apart from every string
NoneVal == <<"<None>">>

\* str(x): None becomes the four characters None
str(x) == IF x = NoneVal THEN <<"N", "o", "n", "e">> ELSE x

Whitespace == {" "}

RECURSIVE LStripChars(_, _)
LStripChars(s, cs) ==
    IF s # <<>> /\ s[1] \in cs THEN LStripChars(Tail(s), cs) ELSE s

RECURSIVE RStripChars(_, _)
RStripChars(s, cs) ==
    IF s # <<>> /\ s[Len(s)] \in cs THEN RStripChars(SubSeq(s, 1, Len(s) - 1), cs) ELSE s

\* str.strip(chars): drop leading and trailing characters that are in chars
StripChars(s, cs) == LStripChars(RStripChars(s, cs), cs)

\* str.strip(): the same with whitespace
strip(s) == StripChars(s, Whitespace)

\* the text of a text node: never empty in a parsed tree
Texts == {<<" ">>, <<"a">>, <<" ", "a">>, <<"a", " ", "b", " ">>}

\* a text node, and an element node wrapping text t (nodeValue None)
TextKid(t) == [nodeValue |-> t, inner |-> t]

ElemKid(t) == [nodeValue |-> NoneVal, inner |-> t]

\* getAttribute("id"): empty when the attribute is absent
Ids == {<<>>, <<"h", "1">>, <<"p", "1">>, <<"x", "1">>}

\* childNodes of an element as far as [0] is read: none, text first, element first
FirstKids == {<<>>, <<ElemKid(<<"a">>)>>} \cup {<<TextKid(t)>> : t \in Texts}

\* a direct child of <description>: an element, or a text node between elements
DescChild ==
    [nodeType : {1}, id : Ids, childNodes : FirstKids]
        \cup {[nodeType |-> 3, id |-> <<>>, childNodes |-> <<>>]}

\* a <p> under <abstract>: also text followed by an inline element
AbsPara ==
    [childNodes : FirstKids \cup {<<TextKid(t), ElemKid(<<"b">>)>> : t \in Texts}]

\* the file attribute of the root: a base name and what follows it
NameChars == {"1", "X", "M"}

Extensions == {<<".", "X", "M", "L">>, <<".", "x", "m", "l">>, <<>>}

FileAttrs == {b \o e : b \in SeqsUpTo(NameChars, MaxName), e \in Extensions}

\* a document whose sections are all present and well formed
GoodDoc ==
    [description |-> << << [nodeType |-> 1, id |-> <<"h", "1">>, childNodes |-> <<TextKid(<<"a">>)>>],
                          [nodeType |-> 1, id |-> <<"p", "1">>, childNodes |-> <<TextKid(<<"a", " ", "b", " ">>)>>] >> >>,
     abstract    |-> << << [childNodes |-> <<TextKid(<<" ", "a">>)>>] >> >>,
     title       |-> << <<TextKid(<<"a">>)>> >>,
     file        |-> <<"1", ".", "X", "M", "L">>]

\* documents: each section is the list getElementsByTagName finds (empty
\* when the section is absent); one section varies, the others are good
Docs ==
    {[GoodDoc EXCEPT !.description = d] :
        d \in {<<>>} \cup {<<c>> : c \in SeqsUpTo(DescChild, MaxKids)}}
    \cup {[GoodDoc EXCEPT !.abstract = a] :
        a \in {<<>>} \cup {<<ps>> : ps \in SeqsUpTo(AbsPara, MaxKids)}}
    \cup {[GoodDoc EXCEPT !.title = t] :
        t \in {<<>>} \cup {<<c>> : c \in FirstKids}}
    \cup {[GoodDoc EXCEPT !.file = f] : f \in FileAttrs}

\* lines 29-36: the loop over the children of the description
RECURSIVE DescFrom(_, _, _)
DescFrom(descN, j, acc) ==
    IF j > Len(descN) THEN Ret(strip(acc))
    ELSE LET n == descN[j] IN
         IF n.nodeType # 1 THEN DescFrom(descN, j + 1, acc)
         ELSE IF n.childNodes = <<>> THEN Raise("IndexError")
         ELSE IF n.childNodes[1].nodeValue = NoneVal THEN DescFrom(descN, j + 1, acc)
         ELSE IF n.id # <<>> /\ n.id[1] = "h"
              THEN DescFrom(descN, j + 1, acc \o strip(n.childNodes[1].nodeValue) \o <<":", " ">>)
         ELSE IF n.id # <<>> /\ n.id[1] = "p"
              THEN DescFrom(descN, j + 1, acc \o strip(n.childNodes[1].nodeValue) \o <<" ">>)
         ELSE DescFrom(descN, j + 1, acc)

\* lines 25-36
pullDesc(headN) ==
    IF headN.description = <<>> THEN Raise("IndexError")
    ELSE DescFrom(headN.description[1], 1, <<>>)

\* lines 41-43: the loop over the paragraphs of the abstract
RECURSIVE AbsFrom(_, _, _)
AbsFrom(ps, j, acc) ==
    IF j > Len(ps) THEN Ret(strip(acc))
    ELSE IF ps[j].childNodes = <<>> THEN Raise("IndexError")
    ELSE AbsFrom(ps, j + 1, acc \o strip(str(ps[j].childNodes[1].nodeValue)) \o <<" ">>)

\* lines 38-43
pullAbs(headN) ==
    IF headN.abstract = <<>> THEN Raise("IndexError")
    ELSE AbsFrom(headN.abstract[1], 1, <<>>)

\* a faulty variant of pullTitle: an absent title gives the empty string
pullTitleDefault(headN) ==
    IF headN.title = <<>> THEN Ret(<<>>)
    ELSE IF headN.title[1] = <<>> THEN Raise("IndexError")
    ELSE Ret(headN.title[1][1].nodeValue)

\* lines 44-46
pullTitle(headN) ==
    IF headN.title = <<>> THEN Raise("IndexError")
    ELSE IF headN.title[1] = <<>> THEN Raise("IndexError")
    ELSE Ret(headN.title[1][1].nodeValue)

\* lines 48-52
pullMeta(headN) == [ID |-> StripChars(headN.file, {".", "X", "M", "L"})]

\* weaviateDB.py lines 113-117: the caller logs the error and goes on
CallerCatches(e) ==
    /\ outcomes' = Append(outcomes, Raise(e))
    /\ xi' = xi + 1
    /\ xpc' = IF xi + 1 < Len(xdocs) THEN "desc" ELSE "end"
    /\ desc' = <<>>
    /\ abstract' = <<>>
    /\ title' = <<>>
    /\ UNCHANGED xdocs

\* line 11
XmlDesc ==
    /\ xpc = "desc"
    /\ LET r == pullDesc(xdocs[xi + 1])
       IN  IF r.ok
           THEN /\ desc' = r.val
                /\ xpc' = "abs"
                /\ UNCHANGED <<xdocs, xi, abstract, title, outcomes>>
           ELSE CallerCatches(r.err)
    /\ UNCHANGED notXml

\* line 12
XmlAbs ==
    /\ xpc = "abs"
    /\ LET r == pullAbs(xdocs[xi + 1])
       IN  IF r.ok
           THEN /\ abstract' = r.val
                /\ xpc' = "title"
                /\ UNCHANGED <<xdocs, xi, desc, title, outcomes>>
           ELSE CallerCatches(r.err)
    /\ UNCHANGED notXml

\* line 13
XmlTitle ==
    /\ xpc = "title"
    /\ LET r == pullTitle(xdocs[xi + 1])
       IN  IF r.ok
           THEN /\ title' = r.val
                /\ xpc' = "meta"
                /\ UNCHANGED <<xdocs, xi, desc, abstract, outcomes>>
           ELSE CallerCatches(r.err)
    /\ UNCHANGED notXml

\* lines 14-20: the dict is returned; the caller goes on with the next file
XmlReturn ==
    /\ xpc = "meta"
    /\ outcomes' = Append(outcomes,
                          Ret([description |-> desc, abstract |-> abstract,
                               title |-> title, meta_data |-> pullMeta(xdocs[xi + 1])]))
    /\ xi' = xi + 1
    /\ xpc' = IF xi + 1 < Len(xdocs) THEN "desc" ELSE "end"
    /\ desc' = <<>>
    /\ abstract' = <<>>
    /\ title' = <<>>
    /\ UNCHANGED xdocs
    /\ UNCHANGED notXml

InitXml ==
    /\ IngestIdle
    /\ BatchIdle
    /\ HashIdle
    /\ QueryIdle
    /\ ConnIdle
    /\ xpc = "desc"
    /\ xdocs \in {<<d, GoodDoc>> : d \in Docs}
    /\ xi = 0
    /\ desc = <<>>
    /\ abstract = <<>>
    /\ title = <<>>
    /\ outcomes = <<>>

NextXml ==
    \/ XmlDesc
    \/ XmlAbs
    \/ XmlTitle
    \/ XmlReturn

SpecXml == InitXml /\ [][NextXml]_vars

\* --------------------------------------------------- claims on XMLPatent.py

\* what the description claim gives for one child
ClaimedDescPart(n) ==
    IF n.nodeType = 1 /\ n.childNodes # <<>> /\ n.childNodes[1].nodeValue # NoneVal
    THEN IF n.id # <<>> /\ n.id[1] = "h" THEN strip(n.childNodes[1].nodeValue) \o <<":", " ">>
         ELSE IF n.id # <<>> /\ n.id[1] = "p" THEN strip(n.childNodes[1].nodeValue) \o <<" ">>
         ELSE <<>>
    ELSE <<>>

RECURSIVE ClaimedDescConcat(_, _)
ClaimedDescConcat(descN, j) ==
    IF j > Len(descN) THEN <<>>
    ELSE ClaimedDescPart(descN[j]) \o ClaimedDescConcat(descN, j + 1)

\* C7 (the claim as stated): for every description section the extraction
\* succeeds and gives the trimmed in-order concatenation of the header and
\* paragraph parts; any other child contributes nothing and cannot fail it.
C7_DescriptionExtraction ==
    [][(xpc = "desc" /\ xdocs[xi + 1].description # <<>>)
          => /\ xpc' = "abs"
             /\ desc' = strip(ClaimedDescConcat(xdocs[xi + 1].description[1], 1))]_vars

\* the text content of a node: the text of all its children, in order
RECURSIVE TextContent(_, _)
TextContent(kids, j) ==
    IF j > Len(kids) THEN <<>> ELSE kids[j].inner \o TextContent(kids, j + 1)

\* the strings of ss joined by one space
RECURSIVE JoinSpace(_, _)
JoinSpace(ss, j) ==
    IF j > Len(ss) THEN <<>>
    ELSE IF j = Len(ss) THEN ss[j]
    ELSE ss[j] \o <<" ">> \o JoinSpace(ss, j + 1)

\* C8 (the claim as stated): for every abstract section the result is the
\* trimmed text content of each paragraph, in order, joined by one space,
\* and the empty string when there is no paragraph.
C8_AbstractExtraction ==
    [][(xpc = "abs" /\ xdocs[xi + 1].abstract # <<>>)
          => LET ps == xdocs[xi + 1].abstract[1]
             IN  /\ xpc' = "title"
                 /\ abstract' = JoinSpace([j \in 1..Len(ps) |->
                                              strip(TextContent(ps[j].childNodes, 1))], 1)]_vars

\* s without suf at its end, s itself when it does not end with suf
RemoveSuffix(s, suf) ==
    IF Len(s) >= Len(suf) /\ SubSeq(s, Len(s) - Len(suf) + 1, Len(s)) = suf
    THEN SubSeq(s, 1, Len(s) - Len(suf))
    ELSE s

\* C9 (the claim as stated): the id of every extracted record is the file
\* attribute with only the .XML suffix removed from its end.
C9_IdIsNameWithoutExtension ==
    \A j \in 1..Len(outcomes) :
        outcomes[j].ok
            => outcomes[j].val.meta_data.ID = RemoveSuffix(xdocs[j].file, <<".", "X", "M", "L">>)

SectionAbsent(d) == d.description = <<>> \/ d.abstract = <<>> \/ d.title = <<>>

Untrimmed(x) == x = NoneVal \/ strip(x) # x

StringifiedNone(x) == x = str(NoneVal)

\* C11 (the claim as stated): in every record a successful extraction
\* returns, title, abstract and description are strings without leading or
\* trailing whitespace, never None and never the text None.
C11_RecordFieldsNormalized ==
    \A j \in 1..Len(outcomes) :
        outcomes[j].ok
            => \A x \in {outcomes[j].val.title, outcomes[j].val.abstract,
                         outcomes[j].val.description} :
                   ~Untrimmed(x) /\ ~StringifiedNone(x)

\* ===================================== ingest_pdfs.py, compute_file_hash

Bytes == {0, 1}

ByteStrings == SeqsUpTo(Bytes, MaxBytes)

\* line 39: the accumulator before any update
Md5Init == 1

\* the accumulator after one more byte: a fixed-size state that depends on
\* every byte fed so far and on their order
Md5Byte(h, b) == (h * 31 + b + 1) % 65521

\* line 42: hasher.update(block)
RECURSIVE Md5Update(_, _)
Md5Update(h, block) ==
    IF block = <<>> THEN h ELSE Md5Update(Md5Byte(h, Head(block)), Tail(block))

HexChars == <<"0", "1", "2", "3", "4", "5", "6", "7", "8", "9", "a", "b", "c", "d", "e", "f">>

\* line 43: the state as a fixed number of hex digits
hexdigest(h) ==
    <<HexChars[((h \div 4096) % 16) + 1], HexChars[((h \div 256) % 16) + 1],
      HexChars[((h \div 16) % 16) + 1], HexChars[(h % 16) + 1]>>

\* a faulty variant of ReadBlock: a short last block is taken for the end
ReadFullBlockOnly(bytes, pos) ==
    IF Len(bytes) - pos < BlockSize THEN <<>> ELSE SubSeq(bytes, pos + 1, pos + BlockSize)

\* line 41: f.read(4096): up to one block from the position, empty at the end
ReadBlock(bytes, pos) == SubSeq(bytes, pos + 1, Min(pos + BlockSize, Len(bytes)))

\* lines 39-40: a new accumulator, the file opened at its start
HashOpen ==
    /\ hpc = "open"
    /\ hasher' = Md5Init
    /\ hpos' = 0
    /\ hpc' = "reading"
    /\ UNCHANGED <<hfiles, hj, digests>>
    /\ UNCHANGED notHash

\* lines 41-42: one turn of the read loop: a non-empty block is fed
HashBlock ==
    /\ hpc = "reading"
    /\ LET block == ReadBlock(hfiles[hj + 1].bytes, hpos)
       IN  /\ block # <<>>
           /\ hasher' = Md5Update(hasher, block)
           /\ hpos' = hpos + Len(block)
    /\ UNCHANGED <<hpc, hfiles, hj, digests>>
    /\ UNCHANGED notHash

\* lines 41, 43: the empty read ends the loop and the digest is returned
HashReturn ==
    /\ hpc = "reading"
    /\ ReadBlock(hfiles[hj + 1].bytes, hpos) = <<>>
    /\ digests' = Append(digests, hexdigest(hasher))
    /\ hj' = hj + 1
    /\ hpc' = IF hj + 1 < Len(hfiles) THEN "open" ELSE "done"
    /\ UNCHANGED <<hfiles, hpos, hasher>>
    /\ UNCHANGED notHash

InitHash ==
    /\ IngestIdle
    /\ BatchIdle
    /\ XmlIdle
    /\ QueryIdle
    /\ ConnIdle
    /\ hpc = "open"
    /\ hfiles \in {<<[path |-> 1, bytes |-> a], [path |-> 2, bytes |-> b]>> :
                      a \in ByteStrings, b \in ByteStrings}
    /\ hj = 0
    /\ hpos = 0
    /\ hasher = 0
    /\ digests = <<>>

NextHash ==
    \/ HashOpen
    \/ HashBlock
    \/ HashReturn

SpecHash == InitHash /\ [][NextHash]_vars

\* C12: the digest returned for a file is the digest of its whole byte
\* sequence fed at once, whatever its length; it does not depend on the
\* path, so equal bytes under two names give equal digests; every byte is
\* read exactly once.
C12_BlockwiseDigestIsWholeDigest ==
    /\ \A j \in 1..Len(digests) :
          digests[j] = hexdigest(Md5Update(Md5Init, hfiles[j].bytes))
    /\ \A a, b \in 1..Len(digests) :
          hfiles[a].bytes = hfiles[b].bytes => digests[a] = digests[b]
    /\ hpc = "reading" => hasher = Md5Update(Md5Init, SubSeq(hfiles[hj + 1].bytes, 1, hpos))

\* C12 witness: two names, the same bytes, more than one block with a
\* partial last block, both hashed to the same digest
C12_Witness ==
    /\ hpc = "done"
    /\ hfiles[1].bytes = hfiles[2].bytes
    /\ Len(hfiles[1].bytes) > BlockSize
    /\ Len(hfiles[1].bytes) % BlockSize # 0
    /\ digests[1] = digests[2]

\* =============================== server.py / weaviate_server.py, /query

Servers == {"weaviate_server", "server"}

\* request.user_query
Queries == {<<>>, <<"q">>, <<"r">>}

\* what EventLogger().log(response) yields, each entry as str() prints it
LogLists == {<<>>, <<<<"a">>>>, <<<<" ", "a">>, <<"b", " ">>>>}

\* str(e) of what the agent or the log reader raises
Failures == {<<"d", "o", "w", "n">>}

\* "".join(str(log) + "\n" for log in ...)
RECURSIVE JoinLines(_)
JoinLines(logs) ==
    IF logs = <<>> THEN <<>> ELSE Head(logs) \o <<"\n">> \o JoinLines(Tail(logs))

\* response_text.strip(): blanks and line breaks
TextStrip(s) == StripChars(s, {" ", "\n"})

\* raise HTTPException(status_code, detail)
HTTPException(code, detail) == [kind |-> "http_error", status |-> code, detail |-> detail]

\* return {"response": text}
Success(text) == [kind |-> "ok", status |-> 200, response |-> text]

\* an exception that leaves query_endpoint
Unhandled(e) == [kind |-> "unhandled", error |-> e]

NoReply == [kind |-> "none"]

\* weaviate_server.py lines 155-156 catch; server.py has no try
OnFailure(srv, e) ==
    IF srv = "weaviate_server" THEN HTTPException(500, e) ELSE Unhandled(e)

\* weaviate_server.py lines 143-144; server.py has no such test
RejectsEmpty(srv, q) == srv = "weaviate_server" /\ q = <<>>

\* a faulty variant of QueryOf: one slot shared by all handlers
QueryOfLatest(rs, r) == rs[Len(rs)].query

\* the lambda reads the user_query of its own request
QueryOf(rs, r) == rs[r].query

\* lifespan (weaviate_server.py 60-119, server.py 53-109): the globals are
\* assigned once, then the application serves
Lifespan ==
    /\ qpc = "starting"
    /\ rag_agent' = <<"agent">>
    /\ session_id' = <<"session">>
    /\ qpc' = "running"
    /\ UNCHANGED <<server, reqs, calls>>
    /\ UNCHANGED notQuery

\* query_endpoint up to its first await: the empty query is refused
\* (weaviate_server.py only), otherwise create_turn is handed to a thread
Accept ==
    /\ qpc = "running"
    /\ Len(reqs) < MaxQueries
    /\ \E q \in Queries :
          reqs' = Append(reqs,
                    IF RejectsEmpty(server, q)
                    THEN [query |-> q, pc |-> "done", response |-> <<"<None>">>,
                          text |-> <<"<None>">>,
                          reply |-> HTTPException(400, <<"Query cannot be empty">>)]
                    ELSE [query |-> q, pc |-> "dispatched", response |-> <<"<None>">>,
                          text |-> <<"<None>">>, reply |-> NoReply])
    /\ UNCHANGED <<qpc, server, rag_agent, session_id, calls>>
    /\ UNCHANGED notQuery

\* the worker thread runs the lambda: rag_agent.create_turn(...)
TurnStart(r) ==
    /\ reqs[r].pc = "dispatched"
    /\ calls' = Append(calls, [req |-> r, query |-> QueryOf(reqs, r),
                               agent |-> rag_agent, session |-> session_id,
                               result |-> "pending"])
    /\ reqs' = [reqs EXCEPT ![r].pc = "inflight", ![r].response = Len(calls) + 1]
    /\ UNCHANGED <<qpc, server, rag_agent, session_id>>
    /\ UNCHANGED notQuery

\* create_turn returns; the handler hands the log reading to a thread
TurnReturn(r) ==
    /\ reqs[r].pc = "inflight"
    /\ \E logs \in LogLists :
          calls' = [calls EXCEPT ![reqs[r].response].result = Ret(logs)]
    /\ reqs' = [reqs EXCEPT ![r].pc = "reading"]
    /\ UNCHANGED <<qpc, server, rag_agent, session_id>>
    /\ UNCHANGED notQuery

\* create_turn raises
TurnRaise(r) ==
    /\ reqs[r].pc = "inflight"
    /\ \E e \in Failures :
          /\ calls' = [calls EXCEPT ![reqs[r].response].result = Raise(e)]
          /\ reqs' = [reqs EXCEPT ![r].pc = "done", ![r].reply = OnFailure(server, e)]
    /\ UNCHANGED <<qpc, server, rag_agent, session_id>>
    /\ UNCHANGED notQuery

\* the log of the handler's own response is read and joined
LogRead(r) ==
    /\ reqs[r].pc = "reading"
    /\ reqs' = [reqs EXCEPT ![r].pc = "joined",
                            ![r].text = JoinLines(calls[reqs[r].response].result.val)]
    /\ UNCHANGED <<qpc, server, rag_agent, session_id, calls>>
    /\ UNCHANGED notQuery

\* reading the log raises
LogRaise(r) ==
    /\ reqs[r].pc = "reading"
    /\ \E e \in Failures :
          reqs' = [reqs EXCEPT ![r].pc = "done", ![r].reply = OnFailure(server, e)]
    /\ UNCHANGED <<qpc, server, rag_agent, session_id, calls>>
    /\ UNCHANGED notQuery

\* return {"response": response_text.strip()}
Respond(r) ==
    /\ reqs[r].pc = "joined"
    /\ reqs' = [reqs EXCEPT ![r].pc = "done", ![r].reply = Success(TextStrip(reqs[r].text))]
    /\ UNCHANGED <<qpc, server, rag_agent, session_id, calls>>
    /\ UNCHANGED notQuery

InitQuery ==
    /\ IngestIdle
    /\ BatchIdle
    /\ XmlIdle
    /\ HashIdle
    /\ ConnIdle
    /\ qpc = "starting"
    /\ server \in Servers
    /\ rag_agent = <<"<None>">>
    /\ session_id = <<"<None>">>
    /\ reqs = <<>>
    /\ calls = <<>>

NextQuery ==
    \/ Lifespan
    \/ Accept
    \/ \E r \in 1..Len(reqs) : TurnStart(r)
    \/ \E r \in 1..Len(reqs) : TurnReturn(r)
    \/ \E r \in 1..Len(reqs) : TurnRaise(r)
    \/ \E r \in 1..Len(reqs) : LogRead(r)
    \/ \E r \in 1..Len(reqs) : LogRaise(r)
    \/ \E r \in 1..Len(reqs) : Respond(r)

SpecQuery == InitQuery /\ [][NextQuery]_vars

CallsOf(r) == {c \in 1..Len(calls) : calls[c].req = r}

\* C13 (the claim as stated): a request whose user_query is empty is
\* refused with a client error and create_turn is never called for it.
C13_EmptyQueryRejectedBeforeDispatch ==
    \A r \in 1..Len(reqs) :
        reqs[r].query = <<>>
            => /\ CallsOf(r) = {}
               /\ reqs[r].pc = "done"
                     => reqs[r].reply.kind = "http_error" /\ reqs[r].reply.status = 400

\* the one call made for request r, once it has been made
CallOf(r) == CHOOSE c \in CallsOf(r) : TRUE

\* C14 (the claim as stated): for a non-empty query create_turn is called
\* once and never again; the handler never lets an exception escape; when the
\* call raised, the reply is a server error carrying the description, and a
\* success reply is given only for a call that returned, with the printed log
\* entries joined in order and trimmed.
C14_FailureSurfacedAsServerError ==
    \A r \in 1..Len(reqs) :
        reqs[r].query # <<>>
            => /\ Cardinality(CallsOf(r)) <= 1
               /\ reqs[r].pc # "dispatched" => Cardinality(CallsOf(r)) = 1
               /\ reqs[r].reply.kind # "unhandled"
               /\ reqs[r].pc = "done"
                     => /\ reqs[r].reply.kind \in {"ok", "http_error"}
                        /\ reqs[r].reply.kind = "http_error"
                              => /\ reqs[r].reply.status = 500
                                 /\ reqs[r].reply.detail \in Failures
                        /\ ~calls[CallOf(r)].result.ok
                              => reqs[r].reply = HTTPException(500, calls[CallOf(r)].result.err)
                        /\ reqs[r].reply.kind = "ok"
                              => /\ calls[CallOf(r)].result.ok
                                 /\ reqs[r].reply.response
                                       = TextStrip(JoinLines(calls[CallOf(r)].result.val))

\* each handler has its own worker call, made with its own query and the
\* startup agent and session; a success reply is the text of that call
OwnCallOwnReply ==
    /\ \A c \in 1..Len(calls) :
          /\ calls[c].req \in 1..Len(reqs)
          /\ calls[c].query = reqs[calls[c].req].query
          /\ calls[c].agent = <<"agent">>
          /\ calls[c].session = <<"session">>
          /\ \A c2 \in 1..Len(calls) : calls[c2].req = calls[c].req => c2 = c
    /\ \A r \in 1..Len(reqs) :
          reqs[r].reply.kind = "ok"
              => /\ CallsOf(r) # {}
                 /\ calls[CallOf(r)].result.ok
                 /\ reqs[r].reply.response = TextStrip(JoinLines(calls[CallOf(r)].result.val))

\* a call in flight stops neither the acceptance of a request nor the
\* start of another handler's worker
InFlightBlocksNothing ==
    (\E r \in 1..Len(reqs) : reqs[r].pc = "inflight")
        => /\ Len(reqs) < MaxQueries => ENABLED Accept
           /\ \A r2 \in 1..Len(reqs) : reqs[r2].pc = "dispatched" => ENABLED TurnStart(r2)

\* once the application runs, no step assigns the two globals
GlobalsKept ==
    qpc = "running" => rag_agent' = rag_agent /\ session_id' = session_id

\* C16: while a call is in flight further queries are accepted and
\* dispatched, each to its own worker; every query gets the response of its
\* own call; no handler reassigns rag_agent or session_id.
C16_QueriesIndependent ==
    [](OwnCallOwnReply /\ InFlightBlocksNothing) /\ [][GlobalsKept]_vars

\* C16 witness: the first query's call is still in flight while a later,
\* different query has been accepted, served by its own call and answered
C16_Witness ==
    /\ Len(reqs) >= 2
    /\ reqs[1].pc = "inflight"
    /\ reqs[2].pc = "done"
    /\ reqs[2].reply.kind = "ok"
    /\ reqs[1].query # reqs[2].query
    /\ calls[CallOf(2)].query = reqs[2].query
    /\ rag_agent = <<"agent">>

\* ======================= weaviateDB.py, create_weaviate_client and main

\* an environment variable: unset, empty, or set
EnvValues == {<<"<None>">>, <<>>, <<"u">>, <<"v">>}

\* line 26: not x
Falsy(x) == x = <<"<None>">> \/ x = <<>>

\* what one connection attempt comes to: connected and ready, connected
\* but not ready, or an exception
AttemptOutcomes == {"ready", "notready", "raised"}

\* a faulty variant of MoreAttempts: one attempt too many
MoreAttemptsInclusive(a) == a <= MaxAttempts

\* line 31: for attempt in range(3)
MoreAttempts(a) == a < MaxAttempts

\* lines 24-28: both variables are needed, else sys.exit(1)
ConnectConfig ==
    /\ cpc = "start"
    /\ IF Falsy(weaviate_url) \/ Falsy(weaviate_api_key)
       THEN cpc' = "exited" /\ exit_code' = 1
       ELSE cpc' = "attempt" /\ exit_code' = exit_code
    /\ attempt' = 0
    /\ UNCHANGED <<weaviate_url, weaviate_api_key, tried, ingest_started>>
    /\ UNCHANGED notConn

\* lines 31-43: one attempt; ready returns the client, anything else is
\* logged and the loop goes on to its sleep
ConnectAttempt ==
    /\ cpc = "attempt"
    /\ MoreAttempts(attempt)
    /\ \E o \in AttemptOutcomes :
          /\ tried' = Append(tried, o)
          /\ cpc' = IF o = "ready" THEN "connected" ELSE "sleep"
    /\ UNCHANGED <<weaviate_url, weaviate_api_key, attempt, exit_code, ingest_started>>
    /\ UNCHANGED notConn

\* line 44: time.sleep(2), then the next turn of the loop
ConnectSleep ==
    /\ cpc = "sleep"
    /\ attempt' = attempt + 1
    /\ cpc' = "attempt"
    /\ UNCHANGED <<weaviate_url, weaviate_api_key, tried, exit_code, ingest_started>>
    /\ UNCHANGED notConn

\* lines 46-47: the loop is exhausted: sys.exit(1)
ConnectGiveUp ==
    /\ cpc = "attempt"
    /\ ~MoreAttempts(attempt)
    /\ cpc' = "exited"
    /\ exit_code' = 1
    /\ UNCHANGED <<weaviate_url, weaviate_api_key, attempt, tried, ingest_started>>
    /\ UNCHANGED notConn

\* lines 53-59: the collection is listed and found, or not found, or the
\* listing raises and is logged
ListCollections ==
    /\ cpc = "connected"
    /\ \E found \in BOOLEAN : cpc' = IF found THEN "collection" ELSE "creating"
    /\ UNCHANGED <<weaviate_url, weaviate_api_key, attempt, tried, exit_code, ingest_started>>
    /\ UNCHANGED notConn

\* lines 62-78: the collection is created, or sys.exit(1)
CreateCollection ==
    /\ cpc = "creating"
    /\ \E created \in BOOLEAN :
          IF created
          THEN cpc' = "collection" /\ exit_code' = exit_code
          ELSE cpc' = "exited" /\ exit_code' = 1
    /\ UNCHANGED <<weaviate_url, weaviate_api_key, attempt, tried, ingest_started>>
    /\ UNCHANGED notConn

\* line 150: add_patents_to_collection(patents_collection, batch_size=10)
StartIngestion ==
    /\ cpc = "collection"
    /\ ingest_started' = TRUE
    /\ cpc' = "ingesting"
    /\ UNCHANGED <<weaviate_url, weaviate_api_key, attempt, tried, exit_code>>
    /\ UNCHANGED notConn

InitConn ==
    /\ IngestIdle
    /\ BatchIdle
    /\ XmlIdle
    /\ HashIdle
    /\ QueryIdle
    /\ cpc = "start"
    /\ weaviate_url \in EnvValues
    /\ weaviate_api_key \in EnvValues
    /\ attempt = 0
    /\ tried = <<>>
    /\ exit_code = -1
    /\ ingest_started = FALSE

NextConn ==
    \/ ConnectConfig
    \/ ConnectAttempt
    \/ ConnectSleep
    \/ ConnectGiveUp
    \/ ListCollections
    \/ CreateCollection
    \/ StartIngestion

SpecConn == InitConn /\ [][NextConn]_vars

ReadyAt(j) == tried[j] = "ready"

NeverReady == \A j \in 1..Len(tried) : ~ReadyAt(j)

ConfigMissing ==
    \/ weaviate_url \in {<<"<None>">>, <<>>}
    \/ weaviate_api_key \in {<<"<None>">>, <<>>}

\* C15: at most 3 connection attempts are made; the first attempt that is
\* ready ends the loop with a client; with no ready attempt no ingestion
\* step runs and after the third failure the process exits with status 1;
\* a missing URL or key exits with status 1 before any attempt.
C15_BoundedConnectRetry ==
    /\ Len(tried) <= 3
    /\ \A j \in 1..Len(tried) : ReadyAt(j) => j = Len(tried) /\ cpc \notin {"attempt", "sleep"}
    /\ NeverReady => ~ingest_started /\ cpc \in {"start", "attempt", "sleep", "exited"}
    /\ (Len(tried) = 3 /\ NeverReady /\ cpc \notin {"sleep", "attempt"})
           => cpc = "exited" /\ exit_code = 1
    /\ (Len(tried) = 3 /\ NeverReady /\ cpc = "attempt") => ~ENABLED ConnectAttempt
    /\ ConfigMissing => tried = <<>> /\ cpc \in {"start", "exited"}
    /\ cpc = "exited" <=> exit_code = 1

\* C15 witness: three attempts failed, by exception and by not being
\* ready, and the process has exited with status 1 before any ingestion
C15_Witness ==
    /\ cpc = "exited"
    /\ exit_code = 1
    /\ tried = <<"raised", "notready", "raised">>
    /\ ~ingest_started

\* ------------------------------ claims on the parse and write steps of main

\* the documents in ds that carry the metadata of planned entry e
DocsFor(ds, e) == SelectSeq(ds, LAMBDA x : x.file_name = e[1] /\ x.file_hash = e[2])

\* the local files read so far whose hash the fetch did not return
UnknownSoFar == {j \in 1..(k - 1) : compute_file_hash(pdf_paths[j]) \notin existing_hashes}

Planned(j) == \E t \in 1..Len(to_process) : to_process[t] = <<pdf_paths[j].path, pdf_paths[j].hash>>

\* after the fetch has returned no step changes existing_hashes
ExistingKept ==
    ipc \notin {"start", "paging"} => existing_hashes' = existing_hashes

\* every unknown file is planned however many share its hash, each planned
\* entry is parsed on its own, and a finished run has written the documents
\* of every one of them
DuplicatesAllIngested ==
    /\ ipc \in {"planning", "planned", "parse_crashed", "ingested", "write_crashed"}
          => /\ \A j \in UnknownSoFar : Planned(j)
             /\ Len(to_process) = Cardinality(UnknownSoFar)
    /\ \A t \in 1..Len(to_process) :
          /\ t < pj => \E n \in DocCounts : DocsFor(all_docs, to_process[t]) = DocsOf(to_process[t], n)
          /\ ipc = "ingested" => DocsFor(stored, to_process[t]) = DocsFor(all_docs, to_process[t])

\* C17: files of one run that share a fingerprint the store did not return
\* are all planned and all ingested; existing_hashes is the set fetched at
\* the start and is never extended with what the run plans or writes.
C17_NoDedupWithinRun == []DuplicatesAllIngested /\ [][ExistingKept]_vars

\* C17 witness: two local files with the same unknown fingerprint, both
\* planned, both written by the finished run
C17_Witness ==
    /\ ipc = "ingested"
    /\ Len(to_process) >= 2
    /\ to_process[1][2] = to_process[2][2]
    /\ to_process[1][2] \notin existing_hashes
    /\ DocsFor(stored, to_process[1]) # <<>>
    /\ DocsFor(stored, to_process[2]) # <<>>

\* C18: nothing is written before every planned file has been parsed; a
\* run that ends for want of PDFs or of new files writes nothing; a run in
\* which a parse raises writes nothing, whatever was parsed before.
C18_WriteOnlyAfterAllParsed ==
    /\ stored # <<>> => pj > Len(to_process) /\ ipc \in {"ingested", "write_crashed"}
    /\ ipc \notin {"ingested", "write_crashed"} => stored = <<>>
    /\ ipc = "done" => stored = <<>> /\ all_docs = <<>> /\ (pdf_paths = <<>> \/ to_process = <<>>)
    /\ ipc = "parse_crashed" => stored = <<>> /\ pj <= Len(to_process)
    /\ stored = SubSeq(all_docs, 1, Len(stored))

\* C18 witness: a parse raised after an earlier file had been parsed into
\* documents, and the store has received nothing
C18_Witness ==
    /\ ipc = "parse_crashed"
    /\ pj > 1
    /\ all_docs # <<>>
    /\ stored = <<>>

====
